---- MODULE Spec2Model ----
(***************************************************************************)
(* Model of package promise (src/promise.go): one promise created by New,  *)
(* observed by caller goroutines through Await, AwaitOr, Then, OnSuccess,  *)
(* OnFailure and Done.  The goroutines that call get are the entries of    *)
(* th, those that execute the computation the entries of comp; each        *)
(* statement of promise.get and of the methods is one step of the          *)
(* goroutine that executes it.                                             *)
(***************************************************************************)
EXTENDS Integers, Sequences, FiniteSets, TLC

\* ---------------------------------------------------------------- bounds
\* Number of caller goroutines of the host program that use the promise.
NCallers == 2
\* Total number of method calls the callers make on the promise.
MaxOps == 2

\* ---------------------------------------------------------------- values
\* The zero value of T (the value field of a promise built by New).
Zero == 0
\* The result type T, as two values: its zero value and one other.
Values == {Zero, 1}
\* The nil error.
Nil == "nil"
\* The error type: nil and one error value.
Errors == {Nil, "e1"}

VARIABLES
    fn,     \* promise.fn: what the computation returns, and whether it returns
    once,   \* promise.once: "idle", "running" (f is executing), "done"
    wg,     \* promise.wg: the WaitGroup counter
    done,   \* promise.done: TRUE when the channel is closed
    value,  \* promise.value
    err,    \* promise.err
    calls,  \* number of invocations of promise.fn
    th,     \* the goroutines that call get: callers 1..NCallers, then those
            \* spawned by Then, OnSuccess, OnFailure and Done
    comp,   \* the goroutines started by the go statement of get: the
            \* position of each
    nOps    \* number of method calls made so far

\* The state of a combinator (All or Race), of its input promises and of the
\* promise it returns.
VARIABLES
    kind,    \* "All" or "Race"; "none" where no combinator is used
    ps,      \* the arguments: ps[k] is the promise given as k-th argument
    inFn,    \* inFn[p]: the computation of input promise p
    order,   \* history: the input promises in the order they resolved
    inp,     \* inp[p]: the fields of input promise p (once, wg, done, value,
             \* err), its computation's goroutine (comp) and invocations (calls)
    dg,      \* dg[k]: the goroutine started by observer k's call of p.Done()
    obs,     \* obs[k]: the k-th goroutine of the combinator's loop: its
             \* position, the locals val, perr, and whether it ran the
             \* function given to once.Do (won)
    mpc,     \* position of the goroutine computing the returned promise
    awg,     \* the combinator's wg
    aonce,   \* the combinator's once
    cancel,  \* the combinator's channel (cancel in All, done in Race): closed
    res,     \* All's res
    rt,      \* Race's named result t
    rerr,    \* the named result err
    cvalue,  \* value of the returned promise
    cerr,    \* err of the returned promise
    cdone    \* done of the returned promise: closed

combVars == <<kind, ps, inFn, order, inp, dg, obs, mpc, awg, aonce, cancel,
              res, rt, rerr, cvalue, cerr, cdone>>

promiseVars == <<fn, once, wg, done, value, err, calls, th, comp, nOps>>

vars == <<promiseVars, combVars>>

\* No combinator is in use.
NoComb ==
    /\ kind = "none"
    /\ ps = <<>>
    /\ inFn = <<>>
    /\ order = <<>>
    /\ inp = <<>>
    /\ dg = <<>>
    /\ obs = <<>>
    /\ mpc = "none"
    /\ awg = 0
    /\ aonce = "idle"
    /\ cancel = FALSE
    /\ res = <<>>
    /\ rt = Zero
    /\ rerr = Nil
    /\ cvalue = Zero
    /\ cerr = Nil
    /\ cdone = FALSE

\* The computations New can be given: any result pair, returning or not.
Fns == [val : Values, err : Errors, hangs : BOOLEAN]

\* A goroutine: the method it runs (op), its position (pc), AwaitOr's
\* defaultValue (d), the locals it read or returned (rv, re), how often it
\* invoked onSuccess / onFailure and with what (nS, aS, nF, aF), whether it
\* has received from the Done channel (saw), the channel its call of Done
\* returned (ch, NoChan when it made none).
NoChan == "none"
Thread(op, pc, d, saw) ==
    [op |-> op, pc |-> pc, d |-> d, rv |-> Zero, re |-> Nil,
     nS |-> 0, aS |-> Zero, nF |-> 0, aF |-> Nil, saw |-> saw, ch |-> NoChan]

Callers == 1..NCallers
Threads == DOMAIN th

\* Where a goroutine goes when its method returns: a caller is free for its
\* next call, a spawned goroutine ends.
FinishPc(t) == IF t \in Callers THEN "idle" ELSE "end"

\* New: only fn and done are set; nothing is started.
InitEager ==
    /\ fn \in Fns
    /\ once = "idle"
    /\ wg = 0
    /\ done = FALSE
    /\ value = Zero
    /\ err = Nil
    /\ calls = 0
    /\ th = [t \in 1..(NCallers + 1) |->
               IF t \in Callers THEN Thread("none", "idle", Zero, FALSE)
                                ELSE Thread("Done", "once", Zero, FALSE)]
    /\ comp = <<>>
    /\ nOps = 0
    /\ NoComb
Init ==
    /\ fn \in Fns
    /\ once = "idle"
    /\ wg = 0
    /\ done = FALSE
    /\ value = Zero
    /\ err = Nil
    /\ calls = 0
    /\ th = [t \in Callers |-> Thread("none", "idle", Zero, FALSE)]
    /\ comp = <<>>
    /\ nOps = 0
    /\ NoComb

\* ------------------------------------------------------- calls of methods
\* A caller between two calls may make the next one.  The callers are
\* interchangeable, so they are numbered by the order of their first calls.
CanCall(t) ==
    /\ t \in Callers
    /\ th[t].pc = "idle"
    /\ nOps < MaxOps
    /\ t > 1 => th[t - 1].op # "none"

\* A method that runs on the caller's goroutine: the caller enters get.
CallSync(t, op, d) ==
    /\ CanCall(t)
    /\ th' = [th EXCEPT ![t] = Thread(op, "once", d, th[t].saw)]
    /\ nOps' = nOps + 1
    /\ UNCHANGED <<fn, once, wg, done, value, err, calls, comp, combVars>>

\* A method whose body is one go statement: a goroutine is spawned that
\* enters get, and the caller has returned.
CallAsync(t, op) ==
    /\ CanCall(t)
    /\ th' = Append([th EXCEPT ![t] = Thread(op, "idle", Zero, th[t].saw)],
                    Thread(op, "once", Zero, FALSE))
    /\ nOps' = nOps + 1
    /\ UNCHANGED <<fn, once, wg, done, value, err, calls, comp, combVars>>

CallAwait(t) == CallSync(t, "Await", Zero)

CallAwaitOr(t) == \E d \in Values : CallSync(t, "AwaitOr", d)

CallThenSync(t) == CallSync(t, "Then", Zero)
CallThen(t) == CallAsync(t, "Then")

CallOnSuccess(t) == CallAsync(t, "OnSuccess")

CallOnFailure(t) == CallAsync(t, "OnFailure")

\* The channel Done returns: the one New made, whatever calls came before.
DoneChanFresh(n) == <<"chan", n>>
DoneChan(n) == <<"chan", 0>>

\* Done: go p.get(); return p.done
CallDone(t) ==
    /\ CanCall(t)
    /\ th' = Append([th EXCEPT ![t] = [Thread("Done", "idle", Zero, th[t].saw)
                                         EXCEPT !.ch = DoneChan(nOps)]],
                    Thread("Done", "once", Zero, FALSE))
    /\ nOps' = nOps + 1
    /\ UNCHANGED <<fn, once, wg, done, value, err, calls, comp, combVars>>

\* The caller receives from the channel Done returned (case <-p.Done()).
RecvDone(t) ==
    /\ t \in Callers
    /\ th[t].pc = "idle"
    /\ th[t].op = "Done"
    /\ ~th[t].saw
    /\ done
    /\ th' = [th EXCEPT ![t].saw = TRUE]
    /\ UNCHANGED <<fn, once, wg, done, value, err, calls, comp, nOps, combVars>>

\* ------------------------------------------------------------ promise.get
\* p.once.Do(f): returns at once when f has completed, runs f when no call
\* has begun, and blocks while another goroutine is executing f.
OnceDoRacy(t) ==
    /\ th[t].pc = "once"
    /\ IF once = "done"
       THEN /\ th' = [th EXCEPT ![t].pc = "wait"]
            /\ once' = once
       ELSE /\ th' = [th EXCEPT ![t].pc = "add"]
            /\ once' = "running"
    /\ UNCHANGED <<fn, wg, done, value, err, calls, comp, nOps, combVars>>
OnceDoAlways(t) ==
    /\ th[t].pc = "once"
    /\ once' = "running"
    /\ th' = [th EXCEPT ![t].pc = "add"]
    /\ UNCHANGED <<fn, wg, done, value, err, calls, comp, nOps, combVars>>
OnceDo(t) ==
    /\ th[t].pc = "once"
    /\ once # "running"
    /\ IF once = "done"
       THEN /\ th' = [th EXCEPT ![t].pc = "wait"]
            /\ once' = once
       ELSE /\ th' = [th EXCEPT ![t].pc = "add"]
            /\ once' = "running"
    /\ UNCHANGED <<fn, wg, done, value, err, calls, comp, nOps, combVars>>

\* p.wg.Add(1)
WgAdd(t) ==
    /\ th[t].pc = "add"
    /\ wg' = wg + 1
    /\ th' = [th EXCEPT ![t].pc = "go"]
    /\ UNCHANGED <<fn, once, done, value, err, calls, comp, nOps, combVars>>

\* go func() { ... }(): the computation gets a goroutine of its own.
GoComp(t) ==
    /\ th[t].pc = "go"
    /\ th' = [th EXCEPT ![t].pc = "unlock"]
    /\ comp' = Append(comp, "fn")
    /\ UNCHANGED <<fn, once, wg, done, value, err, calls, nOps, combVars>>

\* f returns: once.Do marks the Once done and releases its mutex.
OnceRet(t) ==
    /\ th[t].pc = "unlock"
    /\ once' = "done"
    /\ th' = [th EXCEPT ![t].pc = "wait"]
    /\ UNCHANGED <<fn, wg, done, value, err, calls, comp, nOps, combVars>>

\* The statement that follows p.get() in each method.
AfterGet(t) ==
    CASE th[t].op \in {"Await", "AwaitOr"} -> "ret"
      [] th[t].op \in {"Then", "OnSuccess", "OnFailure"} -> "cb"
      [] OTHER -> FinishPc(t)

\* p.wg.Wait(): blocks until the counter is zero.
WgWaitNoBlock(t) ==
    /\ th[t].pc = "wait"
    /\ th' = [th EXCEPT ![t].pc = AfterGet(t)]
    /\ UNCHANGED <<fn, once, wg, done, value, err, calls, comp, nOps, combVars>>
WgWait(t) ==
    /\ th[t].pc = "wait"
    /\ wg = 0
    /\ th' = [th EXCEPT ![t].pc = AfterGet(t)]
    /\ UNCHANGED <<fn, once, wg, done, value, err, calls, comp, nOps, combVars>>

\* ------------------------------------------- the computation's goroutine
Comps == DOMAIN comp

\* p.fn() is invoked.
CompCall(c) ==
    /\ comp[c] = "fn"
    /\ calls' = calls + 1
    /\ comp' = [comp EXCEPT ![c] = "run"]
    /\ UNCHANGED <<fn, once, wg, done, value, err, th, nOps, combVars>>

\* p.value, p.err = p.fn(): p.fn returns (a computation that hangs never
\* does) and the pair it returned is assigned to the two fields.
FnReturn(c) ==
    /\ comp[c] = "run"
    /\ ~fn.hangs
    /\ value' = fn.val
    /\ err' = fn.err
    /\ comp' = [comp EXCEPT ![c] = "close"]
    /\ UNCHANGED <<fn, once, wg, done, calls, th, nOps, combVars>>

\* close(p.done)
CompClose(c) ==
    /\ comp[c] = "close"
    /\ done' = TRUE
    /\ comp' = [comp EXCEPT ![c] = "wgdone"]
    /\ UNCHANGED <<fn, once, wg, value, err, calls, th, nOps, combVars>>

\* defer p.wg.Done()
CompWgDoneMissing(c) ==
    /\ comp[c] = "wgdone"
    /\ comp' = [comp EXCEPT ![c] = "end"]
    /\ UNCHANGED <<fn, once, wg, done, value, err, calls, th, nOps, combVars>>
CompWgDone(c) ==
    /\ comp[c] = "wgdone"
    /\ wg' = wg - 1
    /\ comp' = [comp EXCEPT ![c] = "end"]
    /\ UNCHANGED <<fn, once, done, value, err, calls, th, nOps, combVars>>

\* ------------------------------------------------------- Await, AwaitOr
\* AwaitOr's choice between Await's value and defaultValue.
AwaitOrResultZeroIsFailure(v, e, d) == IF e = Nil /\ v # Zero THEN v ELSE d
AwaitOrResult(v, e, d) == IF e = Nil THEN v ELSE d

\* return p.value, p.err; AwaitOr then returns its choice.
AwaitReturn(t) ==
    /\ th[t].pc = "ret"
    /\ th' = [th EXCEPT ![t].pc = FinishPc(t),
                        ![t].re = err,
                        ![t].rv = IF th[t].op = "AwaitOr"
                                  THEN AwaitOrResult(value, err, th[t].d)
                                  ELSE value]
    /\ UNCHANGED <<fn, once, wg, done, value, err, calls, comp, nOps, combVars>>

\* ------------------------------------------- Then, OnSuccess, OnFailure
\* The branch each method takes on the p.err it reads after get.
CallbackChoiceAnyOutcome(op, e) ==
    CASE op = "Then" -> IF e = Nil THEN "cbS" ELSE "cbF"
      [] op = "OnSuccess" -> "cbS"
      [] op = "OnFailure" -> "cbF"
      [] OTHER -> "none"
CallbackChoice(op, e) ==
    CASE op = "Then" -> IF e = Nil THEN "cbS" ELSE "cbF"
      [] op = "OnSuccess" -> IF e = Nil THEN "cbS" ELSE "none"
      [] op = "OnFailure" -> IF e # Nil THEN "cbF" ELSE "none"
      [] OTHER -> "none"

\* if p.get(); p.err == nil { onSuccess(p.value) } else { onFailure(p.err) }
\* and its one-armed forms in OnSuccess and OnFailure.
CallbackRun(t) ==
    /\ th[t].pc = "cb"
    /\ LET c == CallbackChoice(th[t].op, err)
       IN th' = [th EXCEPT ![t].pc = FinishPc(t),
                           ![t].nS = IF c = "cbS" THEN @ + 1 ELSE @,
                           ![t].aS = IF c = "cbS" THEN value ELSE @,
                           ![t].nF = IF c = "cbF" THEN @ + 1 ELSE @,
                           ![t].aF = IF c = "cbF" THEN err ELSE @]
    /\ UNCHANGED <<fn, once, wg, done, value, err, calls, comp, nOps, combVars>>

\* ----------------------------------------------------------- the system
\* One step of goroutine t inside get or after it (not a new call).
Step(t) ==
    \/ OnceDo(t) \/ WgAdd(t) \/ GoComp(t) \/ OnceRet(t) \/ WgWait(t)
    \/ AwaitReturn(t)
    \/ CallbackRun(t)

\* One step of the computation's goroutine c.
CompStep(c) == CompCall(c) \/ FnReturn(c) \/ CompClose(c) \/ CompWgDone(c)

Next ==
    \/ \E t \in Threads : CallAwait(t)
    \/ \E t \in Threads : CallAwaitOr(t)
    \/ \E t \in Threads : CallThen(t)
    \/ \E t \in Threads : CallOnSuccess(t)
    \/ \E t \in Threads : CallOnFailure(t)
    \/ \E t \in Threads : CallDone(t)
    \/ \E t \in Threads : RecvDone(t)
    \/ \E t \in Threads : OnceDo(t)
    \/ \E t \in Threads : WgAdd(t)
    \/ \E t \in Threads : GoComp(t)
    \/ \E t \in Threads : OnceRet(t)
    \/ \E t \in Threads : WgWait(t)
    \/ \E c \in Comps : CompCall(c)
    \/ \E c \in Comps : FnReturn(c)
    \/ \E c \in Comps : CompClose(c)
    \/ \E c \in Comps : CompWgDone(c)
    \/ \E t \in Threads : AwaitReturn(t)
    \/ \E t \in Threads : CallbackRun(t)

Spec == Init /\ [][Next]_vars

\* The Go scheduler does not leave runnable goroutines waiting for ever:
\* while some goroutine can take a step of get or of a method, one is taken.
\* The host alone decides whether it makes another call or receives from Done.
Fairness ==
    WF_vars((\E t \in Threads : Step(t)) \/ (\E c \in Comps : CompStep(c)))

\* The promises whose computation returns, under that scheduling.
FairInit == Init /\ ~fn.hangs

FairSpec == FairInit /\ [][Next]_vars /\ Fairness

\* ---------------------------------------------------------- All and Race
\* The most arguments a combinator is given.
NInputs == 2

\* Largest element of a finite set of naturals (0 for the empty set).
MaxOf(S) == IF S = {} THEN 0 ELSE CHOOSE x \in S : \A y \in S : y <= x

\* The argument lists ps...: zero to NInputs promises, where one promise may
\* be given several times.  Promises are numbered by their first appearance.
ArgLists ==
    UNION {{a \in [1..n -> 1..n] :
              \A k \in 1..n : a[k] <= 1 + MaxOf({a[j] : j \in 1..(k - 1)})} :
           n \in 0..NInputs}

\* The input promises of an argument list, and the observers of the loop.
Promises == 1..MaxOf({ps[k] : k \in DOMAIN ps})
Observers == DOMAIN ps

\* The error input promise p fails with.
ErrOf(p) == "e" \o ToString(p)

\* The computations of input promise p: it returns the value p, or the value
\* p together with an error, or it never returns.
InFns(p) ==
    {[val |-> p, err |-> Nil, hangs |-> FALSE],
     [val |-> p, err |-> ErrOf(p), hangs |-> FALSE],
     [val |-> p, err |-> Nil, hangs |-> TRUE]}

\* New: an input promise on which no method has been called.
NewInput ==
    [once |-> "idle", wg |-> 0, done |-> FALSE, value |-> Zero, err |-> Nil,
     comp |-> "none", calls |-> 0]

\* The single promise of Spec is not used.
NoPromise ==
    /\ fn = [val |-> Zero, err |-> Nil, hangs |-> FALSE]
    /\ once = "idle"
    /\ wg = 0
    /\ done = FALSE
    /\ value = Zero
    /\ err = Nil
    /\ calls = 0
    /\ th = <<>>
    /\ comp = <<>>
    /\ nOps = 0

\* Variant: All and Race start the loop's goroutines when they are called,
\* before they return the promise.
CombInitEager ==
    /\ NoPromise
    /\ kind \in {"All", "Race"}
    /\ ps \in ArgLists
    /\ inFn \in {f \in [Promises -> UNION {InFns(p) : p \in Promises}] :
                   \A p \in Promises : f[p] \in InFns(p)}
    /\ order = <<>>
    /\ inp = [p \in Promises |-> NewInput]
    /\ dg = [k \in Observers |-> "none"]
    /\ obs = [k \in Observers |->
                [pc |-> "enter", val |-> Zero, perr |-> Nil, won |-> FALSE]]
    /\ mpc = "new"
    /\ awg = Len(ps)
    /\ aonce = "idle"
    /\ cancel = FALSE
    /\ res = [k \in Observers |-> Zero]
    /\ rt = Zero
    /\ rerr = Nil
    /\ cvalue = IF kind = "All" THEN <<>> ELSE Zero
    /\ cerr = Nil
    /\ cdone = FALSE

\* All(ps...) or Race(ps...) has returned its promise: New has stored the
\* closure, nothing runs.
CombInit ==
    /\ NoPromise
    /\ kind \in {"All", "Race"}
    /\ ps \in ArgLists
    /\ inFn \in {f \in [Promises -> UNION {InFns(p) : p \in Promises}] :
                   \A p \in Promises : f[p] \in InFns(p)}
    /\ order = <<>>
    /\ inp = [p \in Promises |-> NewInput]
    /\ dg = [k \in Observers |-> "none"]
    /\ obs = [k \in Observers |-> [pc |-> "none", val |-> Zero, perr |-> Nil, won |-> FALSE]]
    /\ mpc = "new"
    /\ awg = 0
    /\ aonce = "idle"
    /\ cancel = FALSE
    /\ res = <<>>
    /\ rt = Zero
    /\ rerr = Nil
    /\ cvalue = IF kind = "All" THEN <<>> ELSE Zero
    /\ cerr = Nil
    /\ cdone = FALSE

\* ---- the returned promise and the goroutine of its computation
\* A first method call on the returned promise: its get starts the goroutine
\* that runs the combinator's closure.
Observe ==
    /\ mpc = "new"
    /\ mpc' = "start"
    /\ UNCHANGED <<promiseVars, kind, ps, inFn, order, inp, dg, obs, awg, aonce,
                   cancel, res, rt, rerr, cvalue, cerr, cdone>>

\* Variant: the closure has no case for an empty argument list.
MainStartNoEmptyCase ==
    /\ mpc = "start"
    /\ mpc' = IF Len(ps) > 0 THEN "spawn"
              ELSE IF kind = "All" THEN "wait" ELSE "recv"
    /\ awg' = awg + Len(ps)
    /\ res' = [k \in Observers |-> Zero]
    /\ UNCHANGED <<promiseVars, kind, ps, inFn, order, inp, dg, obs, aonce,
                   cancel, rt, rerr, cvalue, cerr, cdone>>

\* if len(ps) == 0 { return ... }; otherwise the locals are made and
\* wg.Add(len(ps)) is executed.
MainStart ==
    /\ mpc = "start"
    /\ IF Len(ps) = 0
       THEN /\ mpc' = "ret"
            /\ UNCHANGED <<awg, res>>
       ELSE /\ mpc' = "spawn"
            /\ awg' = awg + Len(ps)
            /\ res' = [k \in Observers |-> Zero]
    /\ UNCHANGED <<promiseVars, kind, ps, inFn, order, inp, dg, obs, aonce, cancel,
                   rt, rerr, cvalue, cerr, cdone>>

\* The observers the loop has started so far.
Spawned == {k \in Observers : obs[k].pc # "none"}

\* for i, p := range ps { go func(i, p) {...}(i, p) }: one iteration.  After
\* the last one All goes to wg.Wait() and Race to <-done.
MainSpawn ==
    /\ mpc = "spawn"
    /\ LET k == Cardinality(Spawned) + 1
       IN /\ obs' = [obs EXCEPT ![k].pc = "enter"]
          /\ mpc' = IF k < Len(ps) THEN "spawn"
                    ELSE IF kind = "All" THEN "wait" ELSE "recv"
    /\ UNCHANGED <<promiseVars, kind, ps, inFn, order, inp, dg, awg, aonce, cancel,
                   res, rt, rerr, cvalue, cerr, cdone>>

\* Race: <-done
MainRecv ==
    /\ mpc = "recv"
    /\ cancel
    /\ mpc' = "wait"
    /\ UNCHANGED <<promiseVars, kind, ps, inFn, order, inp, dg, obs, awg, aonce,
                   cancel, res, rt, rerr, cvalue, cerr, cdone>>

\* Variant: the closure does not wait for its observers.
MainWaitNoBlock ==
    /\ mpc = "wait"
    /\ mpc' = "ret"
    /\ UNCHANGED <<promiseVars, kind, ps, inFn, order, inp, dg, obs, awg,
                   aonce, cancel, res, rt, rerr, cvalue, cerr, cdone>>

\* wg.Wait()
MainWait ==
    /\ mpc = "wait"
    /\ awg = 0
    /\ mpc' = "ret"
    /\ UNCHANGED <<promiseVars, kind, ps, inFn, order, inp, dg, obs, awg, aonce,
                   cancel, res, rt, rerr, cvalue, cerr, cdone>>

\* Variant: All returns the values in the order the inputs resolved.
AllResultCompletionOrder ==
    IF rerr # Nil THEN <<<<>>, rerr>>
    ELSE <<[j \in 1..Len(order) |-> inp[order[j]].value], Nil>>

\* Variant: All returns the partial results together with the error.
AllResultPartial == <<res, rerr>>

\* What the closure returns.  All: make([]T, 0), err when err is set, and
\* res, nil otherwise (make([]T, 0), nil without arguments).  Race: t, err.
AllResult == IF rerr # Nil THEN <<<<>>, rerr>> ELSE <<res, Nil>>
RaceResult == <<rt, rerr>>

\* The closure returns and get assigns the pair to the returned promise's
\* value and err (p.value, p.err = p.fn()).
MainReturn ==
    /\ mpc = "ret"
    /\ LET r == IF kind = "All" THEN AllResult ELSE RaceResult
       IN /\ cvalue' = r[1]
          /\ cerr' = r[2]
    /\ mpc' = "close"
    /\ UNCHANGED <<promiseVars, kind, ps, inFn, order, inp, dg, obs, awg, aonce,
                   cancel, res, rt, rerr, cdone>>

\* close(p.done) of the returned promise.
MainClose ==
    /\ mpc = "close"
    /\ cdone' = TRUE
    /\ mpc' = "done"
    /\ UNCHANGED <<promiseVars, kind, ps, inFn, order, inp, dg, obs, awg, aonce,
                   cancel, res, rt, rerr, cvalue, cerr>>

\* ---- the input promises
\* go p.get() of Done, on input ps[k]: once.Do starts the computation's
\* goroutine if no get did before (wg.Add(1); go func).  The p.wg.Wait() that
\* follows writes nothing: the goroutine is left at "wait", where it is
\* blocked while the input's wg is positive and has ended otherwise.
DgOnce(k) ==
    /\ dg[k] = "once"
    /\ dg' = [dg EXCEPT ![k] = "wait"]
    /\ inp' = IF inp[ps[k]].once = "idle"
              THEN [inp EXCEPT ![ps[k]].once = "done",
                               ![ps[k]].wg = @ + 1,
                               ![ps[k]].comp = "fn"]
              ELSE inp
    /\ UNCHANGED <<promiseVars, kind, ps, inFn, order, obs, mpc, awg, aonce,
                   cancel, res, rt, rerr, cvalue, cerr, cdone>>

\* The computation of input p is invoked.
InCall(p) ==
    /\ inp[p].comp = "fn"
    /\ inp' = [inp EXCEPT ![p].comp = "run", ![p].calls = @ + 1]
    /\ UNCHANGED <<promiseVars, kind, ps, inFn, order, dg, obs, mpc, awg, aonce,
                   cancel, res, rt, rerr, cvalue, cerr, cdone>>

\* p.value, p.err = p.fn() of input p.
InReturn(p) ==
    /\ inp[p].comp = "run"
    /\ ~inFn[p].hangs
    /\ inp' = [inp EXCEPT ![p].comp = "close",
                          ![p].value = inFn[p].val,
                          ![p].err = inFn[p].err]
    /\ UNCHANGED <<promiseVars, kind, ps, inFn, order, dg, obs, mpc, awg, aonce,
                   cancel, res, rt, rerr, cvalue, cerr, cdone>>

\* close(p.done) of input p.
InClose(p) ==
    /\ inp[p].comp = "close"
    /\ inp' = [inp EXCEPT ![p].comp = "wgdone", ![p].done = TRUE]
    /\ order' = Append(order, p)
    /\ UNCHANGED <<promiseVars, kind, ps, inFn, dg, obs, mpc, awg, aonce,
                   cancel, res, rt, rerr, cvalue, cerr, cdone>>

\* defer p.wg.Done() of input p.
InWgDone(p) ==
    /\ inp[p].comp = "wgdone"
    /\ inp' = [inp EXCEPT ![p].comp = "end", ![p].wg = @ - 1]
    /\ UNCHANGED <<promiseVars, kind, ps, inFn, order, dg, obs, mpc, awg, aonce,
                   cancel, res, rt, rerr, cvalue, cerr, cdone>>

\* ---- the observers (the goroutines of the loop)
\* Variant: the observer looks at cancel first and calls p.Done() only when
\* cancel is still open.
ObsEnterCancelFirst(k) ==
    /\ obs[k].pc = "enter"
    /\ IF cancel
       THEN /\ obs' = [obs EXCEPT ![k].pc = "wgdone"]
            /\ dg' = dg
       ELSE /\ obs' = [obs EXCEPT ![k].pc = "select"]
            /\ dg' = [dg EXCEPT ![k] = "once"]
    /\ UNCHANGED <<promiseVars, kind, ps, inFn, order, inp, mpc, awg, aonce,
                   cancel, res, rt, rerr, cvalue, cerr, cdone>>

\* Entering select evaluates the channel operands of all its cases: cancel
\* (done in Race) and p.Done(), which starts go p.get().
ObsEnter(k) ==
    /\ obs[k].pc = "enter"
    /\ obs' = [obs EXCEPT ![k].pc = "select"]
    /\ dg' = [dg EXCEPT ![k] = "once"]
    /\ UNCHANGED <<promiseVars, kind, ps, inFn, order, inp, mpc, awg, aonce, cancel,
                   res, rt, rerr, cvalue, cerr, cdone>>

\* Variant: the select has no case for cancel, the observer waits for its
\* input only.
ObsNoCancelCase(k) ==
    /\ obs[k].pc = "select"
    /\ FALSE
    /\ UNCHANGED vars

\* case <-cancel: (case <-done: in Race) return
ObsCancelled(k) ==
    /\ obs[k].pc = "select"
    /\ cancel
    /\ obs' = [obs EXCEPT ![k].pc = "wgdone"]
    /\ UNCHANGED <<promiseVars, kind, ps, inFn, order, inp, dg, mpc, awg, aonce,
                   cancel, res, rt, rerr, cvalue, cerr, cdone>>

\* case <-p.Done(): All goes on to p.Await(), Race to once.Do.
ObsRecv(k) ==
    /\ obs[k].pc = "select"
    /\ inp[ps[k]].done
    /\ obs' = [obs EXCEPT ![k].pc = IF kind = "All" THEN "await" ELSE "once"]
    /\ UNCHANGED <<promiseVars, kind, ps, inFn, order, inp, dg, mpc, awg, aonce,
                   cancel, res, rt, rerr, cvalue, cerr, cdone>>

\* All: val, perr := p.Await().  get finds the Once done and waits in
\* wg.Wait() for the deferred wg.Done() of the input's computation.
ObsAwait(k) ==
    /\ obs[k].pc = "await"
    /\ inp[ps[k]].once = "done"
    /\ inp[ps[k]].wg = 0
    /\ obs' = [obs EXCEPT ![k].pc = "store",
                          ![k].val = inp[ps[k]].value,
                          ![k].perr = inp[ps[k]].err]
    /\ UNCHANGED <<promiseVars, kind, ps, inFn, order, inp, dg, mpc, awg, aonce,
                   cancel, res, rt, rerr, cvalue, cerr, cdone>>

\* All: if perr != nil { once.Do(func() { err = perr; close(cancel) });
\* return }; res[i] = val
ObsStore(k) ==
    /\ obs[k].pc = "store"
    /\ obs' = [obs EXCEPT ![k].pc = "wgdone",
                          ![k].won = obs[k].perr # Nil /\ aonce = "idle"]
    /\ IF obs[k].perr # Nil
       THEN /\ IF aonce = "idle"
               THEN /\ rerr' = obs[k].perr
                    /\ cancel' = TRUE
                    /\ aonce' = "done"
               ELSE UNCHANGED <<rerr, cancel, aonce>>
            /\ res' = res
       ELSE /\ res' = [res EXCEPT ![k] = obs[k].val]
            /\ UNCHANGED <<rerr, cancel, aonce>>
    /\ UNCHANGED <<promiseVars, kind, ps, inFn, order, inp, dg, mpc, awg, rt,
                   cvalue, cerr, cdone>>

\* Variant: the gate is missing, every observer that receives from p.Done()
\* runs the function.
ObsOnceNoGate(k) ==
    /\ obs[k].pc = "once"
    /\ aonce' = "running"
    /\ obs' = [obs EXCEPT ![k].pc = "rawait", ![k].won = TRUE]
    /\ UNCHANGED <<promiseVars, kind, ps, inFn, order, inp, dg, mpc, awg,
                   cancel, res, rt, rerr, cvalue, cerr, cdone>>

\* Race: once.Do(func() {...}): the first observer runs the function, one
\* that comes while it runs waits, one that comes later returns.
ObsOnce(k) ==
    /\ obs[k].pc = "once"
    /\ aonce # "running"
    /\ IF aonce = "idle"
       THEN /\ aonce' = "running"
            /\ obs' = [obs EXCEPT ![k].pc = "rawait", ![k].won = TRUE]
       ELSE /\ aonce' = aonce
            /\ obs' = [obs EXCEPT ![k].pc = "wgdone"]
    /\ UNCHANGED <<promiseVars, kind, ps, inFn, order, inp, dg, mpc, awg, cancel,
                   res, rt, rerr, cvalue, cerr, cdone>>

\* Variant: Race assigns the winner's value to t also when it failed.
ObsRaceAwaitKeepsValue(k) ==
    /\ obs[k].pc = "rawait"
    /\ inp[ps[k]].once = "done"
    /\ inp[ps[k]].wg = 0
    /\ obs' = [obs EXCEPT ![k].pc = "rclose", ![k].val = inp[ps[k]].value]
    /\ rerr' = inp[ps[k]].err
    /\ rt' = inp[ps[k]].value
    /\ UNCHANGED <<promiseVars, kind, ps, inFn, order, inp, dg, mpc, awg,
                   aonce, cancel, res, cvalue, cerr, cdone>>

\* Race: if val, err = p.Await(); err == nil { t = val }
ObsRaceAwait(k) ==
    /\ obs[k].pc = "rawait"
    /\ inp[ps[k]].once = "done"
    /\ inp[ps[k]].wg = 0
    /\ obs' = [obs EXCEPT ![k].pc = "rclose", ![k].val = inp[ps[k]].value]
    /\ rerr' = inp[ps[k]].err
    /\ rt' = IF inp[ps[k]].err = Nil THEN inp[ps[k]].value ELSE rt
    /\ UNCHANGED <<promiseVars, kind, ps, inFn, order, inp, dg, mpc, awg, aonce,
                   cancel, res, cvalue, cerr, cdone>>

\* Race: close(done), and once.Do returns.
ObsRaceClose(k) ==
    /\ obs[k].pc = "rclose"
    /\ cancel' = TRUE
    /\ aonce' = "done"
    /\ obs' = [obs EXCEPT ![k].pc = "wgdone"]
    /\ UNCHANGED <<promiseVars, kind, ps, inFn, order, inp, dg, mpc, awg, res, rt,
                   rerr, cvalue, cerr, cdone>>

\* defer wg.Done()
ObsWgDone(k) ==
    /\ obs[k].pc = "wgdone"
    /\ awg' = awg - 1
    /\ obs' = [obs EXCEPT ![k].pc = "end"]
    /\ UNCHANGED <<promiseVars, kind, ps, inFn, order, inp, dg, mpc, aonce, cancel,
                   res, rt, rerr, cvalue, cerr, cdone>>

CombNext ==
    \/ Observe
    \/ MainStart
    \/ MainSpawn
    \/ MainRecv
    \/ MainWait
    \/ MainReturn
    \/ MainClose
    \/ \E k \in Observers : DgOnce(k)
    \/ \E p \in Promises : InCall(p)
    \/ \E p \in Promises : InReturn(p)
    \/ \E p \in Promises : InClose(p)
    \/ \E p \in Promises : InWgDone(p)
    \/ \E k \in Observers : ObsEnter(k)
    \/ \E k \in Observers : ObsCancelled(k)
    \/ \E k \in Observers : ObsRecv(k)
    \/ \E k \in Observers : ObsAwait(k)
    \/ \E k \in Observers : ObsStore(k)
    \/ \E k \in Observers : ObsOnce(k)
    \/ \E k \in Observers : ObsRaceAwait(k)
    \/ \E k \in Observers : ObsRaceClose(k)
    \/ \E k \in Observers : ObsWgDone(k)

CombSpec == CombInit /\ [][CombNext]_vars

\* Every goroutine that can take a step eventually takes one.  Whether the
\* returned promise is ever observed is left to its holder.
CombFairness == WF_vars(mpc # "new" /\ CombNext)

CombFairSpec == CombInit /\ [][CombNext]_vars /\ CombFairness

\* ------------------------------------------------------------ vocabulary
\* Both fields hold what the computation returned.
Written == \E c \in Comps : comp[c] \in {"close", "wgdone", "end"}

\* Goroutine t runs Await or AwaitOr and has come out of get.
ReleasedAwait(t) ==
    th[t].op \in {"Await", "AwaitOr"} /\ th[t].pc \in {"ret", "idle", "end"}

\* Goroutine t is one spawned by Then, OnSuccess, OnFailure or Done and has
\* come out of get.
ReleasedAsync(t) ==
    /\ t \notin Callers
    /\ th[t].op \in {"Then", "OnSuccess", "OnFailure", "Done"}
    /\ th[t].pc \in {"cb", "end"}

\* Goroutine t has returned from Await.
Awaited(t) == th[t].op = "Await" /\ th[t].pc \in {"idle", "end"}

\* Goroutine t has returned from AwaitOr.
AwaitedOr(t) == th[t].op = "AwaitOr" /\ th[t].pc \in {"idle", "end"}

\* ------------------------------------------------------------------- C1
\* C1: for every interleaving of calls of Await, AwaitOr, Then, OnSuccess,
\* OnFailure and Done, the computation is invoked at most once, and it has
\* been invoked exactly once when the promise is resolved.
C1_InvokedAtMostOnce == calls <= 1 /\ (done => calls = 1)

\* Two observers have both come out of get on a resolved promise.
C1_Witness ==
    /\ done
    /\ calls = 1
    /\ \E t, u \in Threads :
        /\ t # u
        /\ ReleasedAwait(t) \/ ReleasedAsync(t)
        /\ ReleasedAwait(u) \/ ReleasedAsync(u)

\* ------------------------------------------------------------------- C2
\* C2: value and err are written before the done channel is closed, and the
\* channel is closed before any observer comes out of get; what an observer
\* reads is the computation's final result.
C2_WriteBeforeSignalBeforeRelease ==
    /\ done => Written /\ value = fn.val /\ err = fn.err
    /\ \A t \in Threads : ReleasedAwait(t) \/ ReleasedAsync(t) => done
    /\ \A t \in Threads : Awaited(t) => th[t].rv = fn.val /\ th[t].re = fn.err
    /\ \A t \in Threads :
        /\ th[t].nS > 0 => th[t].aS = fn.val
        /\ th[t].nF > 0 => th[t].aF = fn.err

\* An Await has returned a pair that only the computation's write can have
\* put into the fields.
C2_Witness ==
    \E t \in Callers :
        Awaited(t) /\ th[t].rv # Zero /\ th[t].re # Nil

\* ------------------------------------------------------------------- C3
\* C3: once the promise is resolved, value and err never change and the
\* computation is not invoked again; every pair an Await returned, the error
\* every AwaitOr saw and every callback argument is the stored pair.
C3_ResolvedIsImmutable ==
    /\ [](\A t \in Threads :
            /\ Awaited(t) => th[t].rv = value /\ th[t].re = err
            /\ AwaitedOr(t) => th[t].re = err
            /\ th[t].nS > 0 => th[t].aS = value
            /\ th[t].nF > 0 => th[t].aF = err)
    /\ [][done => value' = value /\ err' = err /\ calls' = calls]_vars

\* Two Await calls have returned, the promise having run its computation once.
C3_Witness ==
    /\ calls = 1
    /\ \E t, u \in Callers :
        t # u /\ Awaited(t) /\ Awaited(u) /\ th[t].rv # Zero

\* ------------------------------------------------------------------- C4
\* C4: while no method has been called on the promise nothing has been
\* started: no goroutine exists besides the idle callers and the computation
\* has not been invoked; and every invocation of the computation is made by
\* a goroutine started for it, never by a caller or an observer.
C4_Lazy ==
    /\ nOps = 0 =>
        /\ calls = 0
        /\ once = "idle"
        /\ wg = 0
        /\ ~done
        /\ comp = <<>>
        /\ Threads = Callers
        /\ \A t \in Threads : th[t].pc = "idle"
    /\ calls = Cardinality({c \in Comps : comp[c] # "fn"})

\* The computation runs on its own goroutine while the caller that
\* triggered it is blocked in wg.Wait.
C4_Witness ==
    /\ nOps = 1
    /\ \E t \in Callers : th[t].op = "Await" /\ th[t].pc = "wait"
    /\ \E c \in Comps : comp[c] = "run"

\* ------------------------------------------------------------------- C5
\* C5: if the promise is observed at least once and its computation
\* returns, then under fair scheduling, again and again (after every call
\* the host makes) the done channel is closed, no Await or AwaitOr call is
\* still blocked, and every goroutine spawned by Then, OnSuccess, OnFailure
\* or Done has ended, having run its applicable callback.
C5_Settled ==
    /\ nOps > 0 => done
    /\ \A t \in Threads :
        /\ th[t].pc \in {"idle", "end"}
        /\ t \notin Callers =>
            /\ th[t].op = "Then" => th[t].nS + th[t].nF = 1
            /\ th[t].op = "OnSuccess" /\ fn.err = Nil => th[t].nS = 1
            /\ th[t].op = "OnFailure" /\ fn.err # Nil => th[t].nF = 1

C5_EventuallyResolved == []<>C5_Settled

\* A promise whose computation returns has resolved, an Await has returned
\* and a goroutine spawned by Then has run its callback.
C5_Witness ==
    /\ ~fn.hangs
    /\ done
    /\ \E t \in Callers : Awaited(t)
    /\ \E u \in Threads :
        th[u].op = "Then" /\ th[u].pc = "end" /\ th[u].nS + th[u].nF = 1

\* ------------------------------------------------------------------- C6
\* C6: whenever a caller has received from the closed done channel, its
\* Await call does not block: neither once.Do nor wg.Wait has to wait for a
\* step of another goroutine.
C6_AwaitAfterDoneNeverBlocks ==
    \A t \in Callers :
        th[t].saw /\ th[t].op = "Await" =>
            /\ th[t].pc = "once" => ENABLED OnceDo(t)
            /\ th[t].pc = "wait" => ENABLED WgWait(t)

\* ------------------------------------------------------------------- C7
\* C7: whenever the promise is resolved with a non-nil err, its value is the
\* zero value of T, whatever pair the computation returned.
C7_ErrorImpliesZeroValue == done /\ err # Nil => value = Zero

\* ------------------------------------------------------------------- C8
\* C8: AwaitOr(d) returns the computation's value when the computation
\* returned no error and d when it returned one; the stored err is the
\* computation's error, and the computation is not invoked a second time.
C8_AwaitOr ==
    /\ \A t \in Threads :
        AwaitedOr(t) =>
            th[t].rv = IF fn.err = Nil THEN fn.val ELSE th[t].d
    /\ done => err = fn.err
    /\ calls <= 1

\* AwaitOr has returned the zero value given as its default although the
\* computation returned another value together with its error.
C8_Witness ==
    \E t \in Callers :
        /\ AwaitedOr(t)
        /\ fn.err # Nil
        /\ fn.val # Zero
        /\ th[t].d = Zero
        /\ th[t].rv = Zero

\* ------------------------------------------------------------------- C9
\* C9: no callback runs before the promise is resolved and none runs twice;
\* when its goroutine has ended, Then has invoked onSuccess with the stored
\* value iff err is nil and onFailure with the stored err otherwise,
\* OnSuccess has invoked its function iff err is nil, OnFailure iff err is
\* not nil.
C9_Callbacks ==
    \A t \in Threads :
        /\ th[t].nS + th[t].nF > 0 => done
        /\ th[t].nS + th[t].nF <= 1
        /\ th[t].op \notin {"Then", "OnSuccess", "OnFailure"} =>
            th[t].nS = 0 /\ th[t].nF = 0
        /\ th[t].op \in {"Then", "OnSuccess", "OnFailure"} /\ th[t].pc = "end" =>
            /\ th[t].nS =
                 IF th[t].op \in {"Then", "OnSuccess"} /\ err = Nil THEN 1 ELSE 0
            /\ th[t].nF =
                 IF th[t].op \in {"Then", "OnFailure"} /\ err # Nil THEN 1 ELSE 0
            /\ th[t].nS = 1 => th[t].aS = value
            /\ th[t].nF = 1 => th[t].aF = err

\* On a failed promise the goroutine of Then has invoked onFailure and the
\* goroutine of OnSuccess has ended without invoking anything.
C9_Witness ==
    \E t, u \in Threads :
        /\ th[t].op = "Then" /\ th[t].pc = "end"
        /\ th[t].nF = 1 /\ th[t].aF # Nil /\ th[t].nS = 0
        /\ th[u].op = "OnSuccess" /\ th[u].pc = "end" /\ th[u].nS = 0

\* ------------------------------------------------------------------ C10
\* C10: a caller is only ever inside a call of Await or AwaitOr, since Then,
\* OnSuccess, OnFailure and Done return in the step that calls them; a call
\* of Await or AwaitOr has returned only if the promise is resolved.
C10_OnlyAwaitBlocks ==
    \A t \in Callers :
        /\ th[t].pc # "idle" => th[t].op \in {"Await", "AwaitOr"}
        /\ Awaited(t) \/ AwaitedOr(t) => done

\* The computation never returns: one caller is back from Then, the other is
\* blocked in Await.
C10_Witness ==
    /\ fn.hangs
    /\ \E c \in Comps : comp[c] = "run"
    /\ \E t, u \in Callers :
        /\ th[t].op = "Then" /\ th[t].pc = "idle"
        /\ th[u].op = "Await" /\ th[u].pc = "wait"

\* ------------------------------------------------------------------ C11
\* The number of times close(p.done) has been executed.
Closes == Cardinality({c \in Comps : comp[c] \in {"wgdone", "end"}})

\* C11: the done channel is closed at most once, and it is closed exactly
\* when it has been closed once; all calls of Done return the same channel.
C11_ClosedOnceSameChannel ==
    /\ Closes <= 1
    /\ done <=> Closes = 1
    /\ \A t, u \in Callers :
        th[t].ch # NoChan /\ th[u].ch # NoChan => th[t].ch = th[u].ch

\* The channel has been closed and two callers hold the channel their calls
\* of Done returned.
C11_Witness ==
    /\ Closes = 1
    /\ \E t, u \in Callers :
        t # u /\ th[t].ch # NoChan /\ th[u].ch # NoChan

\* ------------------------------------------------- vocabulary, All and Race
\* The returned promise is resolved: its value and err are written and its
\* done channel is closed.
CombResolved == cdone

\* Input p has resolved.
InResolved(p) == inp[p].done

\* Input p's computation returns without error, returns an error, returns.
InSucceeds(p) == ~inFn[p].hangs /\ inFn[p].err = Nil
InFails(p) == ~inFn[p].hangs /\ inFn[p].err # Nil
InReturns(p) == ~inFn[p].hangs

\* The values of the inputs in input order.
ValuesInInputOrder == [k \in Observers |-> inFn[ps[k]].val]

\* C12: when every input of All resolves without error, the returned promise
\* resolves to the inputs' values in input order and a nil error, whatever the
\* order of completion, and not before every input has resolved.
C12_AllSuccessInInputOrder ==
    (kind = "All" /\ CombResolved /\ \A p \in Promises : InSucceeds(p))
        => /\ cvalue = ValuesInInputOrder
           /\ cerr = Nil
           /\ \A p \in Promises : InResolved(p)

\* Two inputs completed in reverse order and the values are in input order.
C12_Witness ==
    /\ kind = "All"
    /\ CombResolved
    /\ ps = <<1, 2>>
    /\ order = <<2, 1>>
    /\ cvalue = <<1, 2>>
    /\ cerr = Nil

\* Input p has resolved with an error.
InResolvedWithError(p) == InResolved(p) /\ inp[p].err # Nil

\* C13: All resolves with an error exactly when at least one input resolved
\* with an error; its value is then the empty sequence and its error is the
\* error of one of the failing inputs, as that input's computation returned it.
C13_AllErrorIffInputError ==
    (kind = "All" /\ CombResolved)
        => /\ cerr # Nil <=> \E p \in Promises : InResolvedWithError(p)
           /\ cerr # Nil =>
                /\ cvalue = <<>>
                /\ \E p \in Promises :
                     /\ InResolvedWithError(p)
                     /\ cerr = inp[p].err
                     /\ cerr = inFn[p].err

\* All resolved with an error although another input had succeeded and its
\* value was stored in res.
C13_Witness ==
    /\ kind = "All"
    /\ CombResolved
    /\ cerr # Nil
    /\ cvalue = <<>>
    /\ \E k \in Observers : InSucceeds(ps[k]) /\ res[k] = inFn[ps[k]].val

\* The returned promise has been observed: its computation was started.
Observed == mpc # "new"

\* C14: once an input of an observed All has resolved with an error, the
\* returned promise eventually resolves, also when other inputs never resolve.
C14_AllFailsFast ==
    (kind = "All" /\ Observed /\ \E p \in Promises : InResolvedWithError(p))
        ~> CombResolved

\* All has resolved with an error while another input is still running a
\* computation that never returns.
C14_Witness ==
    /\ kind = "All"
    /\ CombResolved
    /\ cerr # Nil
    /\ \E p \in Promises :
         inFn[p].hangs /\ inp[p].comp = "run" /\ ~InResolved(p)

\* The failing inputs in the order they resolved, and the first of them.
FailedInOrder == SelectSeq(order, LAMBDA p : inp[p].err # Nil)
FirstFailed == Head(FailedInOrder)

\* C15: when inputs of All fail, the returned promise holds the error of the
\* failing input that resolved first in completion order.
C15_AllFirstErrorByCompletion ==
    (kind = "All" /\ CombResolved /\ cerr # Nil)
        => cerr = inp[FirstFailed].err

\* The input that resolved before every other input.
FirstResolved == Head(order)

\* C16: Race resolves to the result of the input that resolved first: its
\* error, and its value when that error is nil.
C16_RaceFirstByCompletion ==
    (kind = "Race" /\ CombResolved /\ Len(ps) > 0)
        => /\ cerr = inp[FirstResolved].err
           /\ cerr = Nil => cvalue = inp[FirstResolved].value

\* Observer k won the Race: it ran the function given to once.Do.
RaceWinner(k) == kind = "Race" /\ obs[k].won

\* C17: when the input that won a Race resolved with an error, the returned
\* promise resolves to that error, unchanged, and the zero value.
C17_RaceWinnerError ==
    (kind = "Race" /\ CombResolved)
        => \A k \in Observers :
             (RaceWinner(k) /\ inp[ps[k]].err # Nil)
                 => /\ cerr = inp[ps[k]].err
                    /\ cerr = inFn[ps[k]].err
                    /\ cvalue = Zero

\* The winner resolved with a non-zero value and an error, and another input
\* has resolved without error.
C17_Witness ==
    /\ kind = "Race"
    /\ CombResolved
    /\ \E k \in Observers :
         /\ RaceWinner(k)
         /\ inp[ps[k]].err # Nil
         /\ inp[ps[k]].value # Zero
         /\ cerr = inp[ps[k]].err
    /\ \E p \in Promises : InResolved(p) /\ inp[p].err = Nil

\* C18: once an input of an observed Race has resolved, the returned promise
\* eventually resolves, also when the other inputs never resolve; and a Race
\* of at least one input does not resolve while no input has resolved.
C18_RaceResolvesWithFirst ==
    /\ (kind = "Race" /\ Observed /\ \E p \in Promises : InResolved(p))
           ~> CombResolved
    /\ []((kind = "Race" /\ Len(ps) > 0 /\ CombResolved)
              => \E p \in Promises : InResolved(p))

\* Race has resolved while another input is still running a computation that
\* never returns.
C18_Witness ==
    /\ kind = "Race"
    /\ CombResolved
    /\ \E p \in Promises :
         inFn[p].hangs /\ inp[p].comp = "run" /\ ~InResolved(p)

\* C19: a combinator given no inputs resolves, once observed, with a nil
\* error and without waiting at <-done or wg.Wait(): All() to the empty
\* sequence and Race() to the zero value.
C19_EmptyInputs ==
    /\ [](Len(ps) = 0 =>
            /\ mpc \notin {"spawn", "recv", "wait"}
            /\ CombResolved =>
                 /\ cerr = Nil
                 /\ kind = "All" => cvalue = <<>>
                 /\ kind = "Race" => cvalue = Zero)
    /\ (Len(ps) = 0 /\ Observed) ~> CombResolved

\* Race() has resolved to the zero value.
C19_Witness ==
    /\ Len(ps) = 0
    /\ kind = "Race"
    /\ CombResolved
    /\ cvalue = Zero
    /\ cerr = Nil

\* Input p holds the result its computation returned.
InOwnResult(p) == inp[p].value = inFn[p].val /\ inp[p].err = inFn[p].err

\* C20: the combinators never cancel an input.  No input's computation is
\* invoked twice and a resolved input holds its own result; once the returned
\* promise is observed, every input's computation is eventually invoked and
\* every input whose computation returns eventually resolves.
C20_InputsNeverCancelled ==
    /\ [](\A p \in Promises :
            /\ inp[p].calls <= 1
            /\ InResolved(p) => InOwnResult(p))
    /\ Observed ~> (\A p \in Promises :
                      /\ inp[p].calls = 1
                      /\ InReturns(p) => InResolved(p))

\* All has resolved with an error; an observer that left through
\* case <-cancel (no error of its own, nothing stored in res) has an input
\* that was invoked once and resolved with its own result.
C20_Witness ==
    /\ kind = "All"
    /\ CombResolved
    /\ cerr # Nil
    /\ \E k \in Observers :
         /\ obs[k].pc = "end"
         /\ obs[k].perr = Nil
         /\ res[k] = Zero
         /\ inp[ps[k]].calls = 1
         /\ InResolved(ps[k])
         /\ InOwnResult(ps[k])

\* The observers that ran the function given to the combinator's once.Do.
Winners == {k \in Observers : obs[k].won}

\* The pair Race commits for input p: its error, and its value when the
\* error is nil (the zero value otherwise, see C17).
RaceCommitOf(p) ==
    <<IF inp[p].err = Nil THEN inp[p].value ELSE Zero, inp[p].err>>

\* C21: in Race the result is committed exactly once.  At most one observer
\* runs the function of once.Do and a resolved Race of at least one input has
\* exactly one, whose input's pair is the result; the named results t, err
\* change only by the step of that observer, with the pair of an input that is
\* resolved at that moment, and never after a commit.
C21_RaceCommitsOnce ==
    /\ [](kind = "Race" =>
            /\ Cardinality(Winners) <= 1
            /\ (CombResolved /\ Len(ps) > 0) =>
                 \E k \in Winners :
                     /\ Winners = {k}
                     /\ <<cvalue, cerr>> = RaceCommitOf(ps[k]))
    /\ [][(kind = "Race" /\ <<rt, rerr>>' # <<rt, rerr>>) =>
            /\ \A j \in Winners : obs[j].pc = "rawait"
            /\ \E k \in Winners :
                 /\ InResolved(ps[k])
                 /\ <<rt, rerr>>' = RaceCommitOf(ps[k])]_vars

\* A tie: the winner has committed and is about to close done, while another
\* observer has received from its input too and waits at once.Do.
C21_Witness ==
    /\ kind = "Race"
    /\ \E k, j \in Observers :
         /\ k # j
         /\ obs[k].won
         /\ obs[k].pc = "rclose"
         /\ <<rt, rerr>> = RaceCommitOf(ps[k])
         /\ obs[j].pc = "once"
         /\ InResolved(ps[j])
         /\ ps[j] # ps[k]

\* Observer k, a goroutine of the combinator's loop, has ended.
ObsEnded(k) == obs[k].pc = "end"

\* C22: when an All or Race promise is resolved, every goroutine its loop
\* started has ended, and from then on res, t and err are not written.
C22_ObserversEndedWhenResolved ==
    /\ [](CombResolved => \A k \in Observers : ObsEnded(k))
    /\ [][CombResolved => <<res, rt, rerr>>' = <<res, rt, rerr>>]_vars

\* Race has resolved; the losing observer has ended although its input has
\* not resolved.
C22_Witness ==
    /\ kind = "Race"
    /\ CombResolved
    /\ \E k \in Observers :
         /\ ~obs[k].won
         /\ ObsEnded(k)
         /\ dg[k] = "wait"
         /\ ~InResolved(ps[k])

\* Input p has been triggered: some get has passed its once.Do.
InTriggered(p) == inp[p].once # "idle"

\* C23: while no method has been called on the promise returned by All or
\* Race, no goroutine of the loop exists, Done has been called on no input
\* and no input is triggered or invoked; and an input is triggered only
\* through the Done call of an observer of the loop.
C23_CombinatorsLazy ==
    /\ ~Observed =>
        /\ \A k \in Observers : obs[k].pc = "none" /\ dg[k] = "none"
        /\ \A p \in Promises : inp[p] = NewInput
        /\ awg = 0
        /\ aonce = "idle"
        /\ ~cancel
        /\ ~CombResolved
    /\ \A p \in Promises :
         InTriggered(p) =>
             /\ Observed
             /\ \E k \in Observers :
                  ps[k] = p /\ obs[k].pc # "none" /\ dg[k] = "wait"

\* After the first observation an input is running while the loop has not
\* yet started the observer of another argument.
C23_Witness ==
    /\ Observed
    /\ mpc = "spawn"
    /\ \E k \in Observers : obs[k].pc = "none"
    /\ \E p \in Promises : inp[p].comp = "run" /\ inp[p].calls = 1

====
